---- MODULE Spec2Model ----
(***************************************************************************)
(* LangsmithMigrator (src/migration.py): a synchronous client that copies  *)
(* datasets, examples, experiments, runs, annotation queues and rules from *)
(* an "old" LangSmith instance to a "new" one over REST.                   *)
(*                                                                         *)
(* The two instances are state; every migrate_* method is one action that  *)
(* performs the whole call, request by request, in program order.  A       *)
(* request is served by the instance its X-API-Key header selects.         *)
(***************************************************************************)
EXTENDS Integers, Sequences, FiniteSets, TLC

VARIABLES old, new, log, hist

vars == <<old, new, log, hist>>

(***************************************************************************)
(* Bounds of the model.                                                    *)
(***************************************************************************)
MaxNameLen == 2        \* longest dataset name, in characters
MaxExamples == 2       \* examples of source dataset 1 in the small worlds
MaxN == 250            \* examples (or experiments) in the paging worlds
MaxCalls == 2          \* migrate_* calls per behaviour
RunsPerPage == 2       \* runs the source returns per /runs/query page
MaxExperiments == 2    \* experiments of source dataset 1 in the small worlds
MaxPre == 2            \* datasets (and queues) the destination holds beforehand
MaxRules == 2          \* rules of the source project

(***************************************************************************)
(* The page size the two offset loops compare against (lines 81/83 and     *)
(* 125/127); the source serves at most that many items per GET.            *)
(***************************************************************************)
PageSize == 100

Null == <<>>

Min(a, b) == IF a < b THEN a ELSE b

Last(s) == s[Len(s)]

Range(s) == {s[i] : i \in 1..Len(s)}

(***************************************************************************)
(* Names are character sequences.  "&" is the one reserved URL character   *)
(* of the alphabet; a name starts with a letter.                           *)
(***************************************************************************)
Letters == {"a"}

Chars == Letters \cup {"&"}

SeqsUpTo(S, n) == UNION {[1..k -> S] : k \in 0..n}

Names == {<<c>> \o t : c \in Letters, t \in SeqsUpTo(Chars, MaxNameLen - 1)}

(***************************************************************************)
(* __init__: the two credential contexts.                                  *)
(***************************************************************************)
old_headers == [X_API_Key |-> "old_api_key"]

(* A credentials slip: the destination headers carry the source key. *)
new_headers_with_old_key == [X_API_Key |-> "old_api_key"]

new_headers == [X_API_Key |-> "new_api_key"]

(* lines 12-13: the SDK clients; each authenticates with the key it was    *)
(* constructed with, as the headers of that instance do.                   *)
old_client == [X_API_Key |-> "old_api_key"]

new_client == [X_API_Key |-> "new_api_key"]

(* The instance a request's API key authenticates against. *)
InstanceOf(headers) == IF headers.X_API_Key = "old_api_key" THEN "old" ELSE "new"

(***************************************************************************)
(* The query string of f"...?name={name}": the name is interpolated as is. *)
(* Nothing percent-encodes "&", so the receiving server reads the value of *)
(* the parameter up to the first "&".                                      *)
(***************************************************************************)
NameQuery(name) == <<"name=">> \o name

RECURSIVE UpToAmp(_)
UpToAmp(s) ==
    IF s = <<>> \/ Head(s) = "&" THEN <<>> ELSE <<Head(s)>> \o UpToAmp(Tail(s))

QueryValue(query) == UpToAmp(Tail(query))

(***************************************************************************)
(* The REST service of one instance.  An instance is a record of ordered   *)
(* collections and the counter it issues IDs from.                         *)
(***************************************************************************)
NewId(inst, kind) == <<inst.tag, kind, inst.nextId>>

ById(coll, id) == CHOOSE x \in Range(coll) : x.id = id

PageFrom(items, offset) == SubSeq(items, offset + 1, Min(Len(items), offset + PageSize))

(* A decoded JSON body: an array, an object or null. *)
Array(items) == [type |-> "array", value |-> items]

Object(fields) == [type |-> "object", value |-> fields]

NotFound == Object([detail |-> "Not Found"])

(***************************************************************************)
(* What an instance may do with the two bulk writes, as its faults field   *)
(* says.  The bulk create of examples answers every record ("ok"), all but *)
(* the last one ("short"), or rejects the payload with an error body       *)
(* ("reject").  The batch of runs that carries the run failing_run is      *)
(* rejected with an error body ("reject") or never answered, so that       *)
(* requests.post raises ("disconnect"); every other batch is written.      *)
(***************************************************************************)
NoFaults == [bulk_examples |-> "ok", batch_runs |-> "ok", failing_run |-> Null]

Rejected == Object([detail |-> "rejected"])

Exception(kind) == [type |-> "exception", value |-> kind]

ServeGetDataset(inst, id) == [inst |-> inst, body |-> Object(ById(inst.datasets, id))]

ServeListDatasets(inst, query) ==
    [inst |-> inst,
     body |-> Array(SelectSeq(inst.datasets, LAMBDA d : d.name = QueryValue(query)))]

ServeCreateDataset(inst, payload) ==
    LET created == [id |-> NewId(inst, "dataset")] @@ payload
    IN [inst |-> [inst EXCEPT !.datasets = Append(@, created), !.nextId = @ + 1],
        body |-> Object(created)]

ServeListExamples(inst, params) ==
    [inst |-> inst,
     body |-> Array(PageFrom(SelectSeq(inst.examples,
                                       LAMBDA e : e.dataset_id = params.dataset),
                             params.offset))]

ServeBulkCreateExamples(inst, payload) ==
    LET answered == IF inst.faults.bulk_examples = "short" /\ payload # <<>>
                    THEN Len(payload) - 1 ELSE Len(payload)
        created == [i \in 1..answered |->
                      [id |-> <<inst.tag, "example", inst.nextId + i - 1>>] @@ payload[i]]
    IN IF inst.faults.bulk_examples = "reject"
       THEN [inst |-> inst, body |-> Rejected]
       ELSE [inst |-> [inst EXCEPT !.examples = @ \o created, !.nextId = @ + answered],
             body |-> Array(created)]

ServeListSessions(inst, params) ==
    [inst |-> inst,
     body |-> Array(PageFrom(SelectSeq(inst.sessions,
                                       LAMBDA s : s.reference_dataset_id
                                                    = params.reference_dataset),
                             params.offset))]

ServeCreateSession(inst, payload) ==
    LET created == [id |-> NewId(inst, "session")] @@ payload
    IN [inst |-> [inst EXCEPT !.sessions = Append(@, created), !.nextId = @ + 1],
        body |-> Object(created)]

(* /runs/query: cursor pagination over the runs of the listed sessions;    *)
(* the cursor is the number of runs already returned.                      *)
ServeQueryRuns(inst, payload) ==
    LET all == SelectSeq(inst.runs, LAMBDA r : r.session_id \in Range(payload.session))
        from == IF "cursor" \in DOMAIN payload THEN payload.cursor[2] ELSE 0
        upto == Min(Len(all), from + RunsPerPage)
    IN [inst |-> inst,
        body |-> Object([runs |-> SubSeq(all, from + 1, upto),
                         cursors |-> [next |-> IF upto < Len(all)
                                               THEN <<"cursor", upto>> ELSE Null]])]

ServeBatchRuns(inst, payload) ==
    IF /\ inst.faults.batch_runs # "ok"
       /\ \E i \in 1..Len(payload.post) : payload.post[i].id = inst.faults.failing_run
    THEN [inst |-> inst,
          body |-> IF inst.faults.batch_runs = "reject"
                   THEN Rejected ELSE Exception("ConnectionError")]
    ELSE [inst |-> [inst EXCEPT !.runs = @ \o payload.post],
          body |-> Object([post |-> "ok"])]

ServeGetQueue(inst, id) == [inst |-> inst, body |-> Object(ById(inst.queues, id))]

(* The queue collection, filtered by name as the dataset collection is. *)
ServeListQueues(inst, query) ==
    [inst |-> inst,
     body |-> Array(SelectSeq(inst.queues, LAMBDA q : q.name = QueryValue(query)))]

ServeCreateQueue(inst, payload) ==
    LET created == [id |-> NewId(inst, "queue")] @@ payload
    IN [inst |-> [inst EXCEPT !.queues = Append(@, created), !.nextId = @ + 1],
        body |-> Object(created)]

ServeListRules(inst, session_id) ==
    [inst |-> inst,
     body |-> Array(SelectSeq(inst.rules, LAMBDA r : r.session_id = session_id))]

ServeCreateRule(inst, payload) ==
    LET created == [id |-> NewId(inst, "rule")] @@ payload
    IN [inst |-> [inst EXCEPT !.rules = Append(@, created), !.nextId = @ + 1],
        body |-> Object(created)]

(* Client.pull_prompt_commit(identifier, include_model=True): the latest   *)
(* commit of the prompt, an object with its manifest.                      *)
ServePullPromptCommit(inst, arg) ==
    [inst |-> inst,
     body |-> Object([manifest |->
                        Last(SelectSeq(inst.prompts,
                                       LAMBDA c : c.prompt_identifier
                                                    = arg.prompt_identifier)).manifest])]

(* Client.push_prompt(prompt_identifier, object): the object becomes a     *)
(* commit of the prompt of that identifier.                                *)
ServePushPrompt(inst, arg) ==
    [inst |-> [inst EXCEPT !.prompts = Append(@, [prompt_identifier |-> arg.prompt_identifier,
                                                  manifest |-> arg.object])],
     body |-> Object([k \in {} |-> <<>>])]

(* The routes an instance serves; any other path is answered with the      *)
(* error body {"detail": "Not Found"} and changes nothing.                 *)
Serve(inst, method, path, arg) ==
    CASE method = "GET" /\ path = "/datasets/{id}" -> ServeGetDataset(inst, arg)
      [] method = "GET" /\ path = "/datasets?" -> ServeListDatasets(inst, arg)
      [] method = "POST" /\ path = "/datasets" -> ServeCreateDataset(inst, arg)
      [] method = "GET" /\ path = "/examples" -> ServeListExamples(inst, arg)
      [] method = "POST" /\ path = "/examples/bulk" -> ServeBulkCreateExamples(inst, arg)
      [] method = "GET" /\ path = "/sessions?" -> ServeListSessions(inst, arg)
      [] method = "POST" /\ path = "/sessions" -> ServeCreateSession(inst, arg)
      [] method = "POST" /\ path = "/runs/query" -> ServeQueryRuns(inst, arg)
      [] method = "POST" /\ path = "/runs/batch" -> ServeBatchRuns(inst, arg)
      [] method = "GET" /\ path = "/annotation-queues/{id}" -> ServeGetQueue(inst, arg)
      [] method = "GET" /\ path = "/annotation-queues?" -> ServeListQueues(inst, arg)
      [] method = "POST" /\ path = "/annotation-queues" -> ServeCreateQueue(inst, arg)
      [] method = "GET" /\ path = "/runs/rules?" -> ServeListRules(inst, arg)
      [] method = "POST" /\ path = "/runs/rules" -> ServeCreateRule(inst, arg)
      [] method = "pull_prompt_commit" /\ path = "prompt" -> ServePullPromptCommit(inst, arg)
      [] method = "push_prompt" /\ path = "prompt" -> ServePushPrompt(inst, arg)
      [] OTHER -> [inst |-> inst, body |-> NotFound]

(***************************************************************************)
(* requests.get / requests.post: the world w = [old, new, log] after the   *)
(* request, and the decoded JSON body.  The log records every request in   *)
(* the order the program issues it, with the IDs of what it created.       *)
(***************************************************************************)
CreatedIds(method, path, body) ==
    IF method = "GET" \/ path \in {"/runs/query", "/runs/batch", "prompt"} THEN <<>>
    ELSE IF body.type = "array" THEN [i \in 1..Len(body.value) |-> body.value[i].id]
    ELSE IF "id" \in DOMAIN body.value THEN <<body.value.id>>
    ELSE <<>>

(* The world after a served request, with the request appended to the log. *)
Logged(w, served, headers, method, path, arg) ==
    [w |-> [w EXCEPT ![InstanceOf(headers)] = served.inst,
                     !.log = Append(@, [headers |-> headers, method |-> method,
                                        path |-> path, arg |-> arg,
                                        created |-> CreatedIds(method, path, served.body)])],
     body |-> served.body]

Request(w, headers, method, path, arg) ==
    Logged(w, Serve(w[InstanceOf(headers)], method, path, arg), headers, method, path, arg)

(* "detail" in response.json(): true of an error object, false of a list. *)
HasDetail(body) == body.type = "object" /\ "detail" \in DOMAIN body.value

(***************************************************************************)
(* The result of a call: the world it leaves, how it ended ("ok" or the    *)
(* exception that left it) and what it returned.  A method is written as   *)
(* the chain of its steps: each step takes the response or result of the   *)
(* step before it and is defined ahead of the step that feeds it.          *)
(***************************************************************************)
Ok(w, value) == [w |-> w, status |-> "ok", value |-> value]

Raise(w, exception) == [w |-> w, status |-> exception, value |-> Null]

(* dict.get(key, default): the value, or the default when the key is      *)
(* missing.                                                                *)
DictGetOr(dict, key, default) == IF key \in DOMAIN dict THEN dict[key] ELSE default

(* dict.get(key): the value, or None when the key is missing. *)
DictGet(dict, key) == DictGetOr(dict, key, Null)

(* dict[key] = value *)
DictSet(dict, key, value) == (key :> value) @@ dict

EmptyDict == [k \in {} |-> Null]

(***************************************************************************)
(* migrate_dataset_examples, lines 74-117.                                 *)
(***************************************************************************)
(* A paging slip: the offset steps one past the examples accumulated. *)
NextOffsetSkipsOne(original_examples) == Len(original_examples) + 1

(* line 92: the next offset is the number of examples accumulated. *)
NextOffset(original_examples) == Len(original_examples)

(* lines 80-92: the offset loop; last_request_size starts at 100. *)
RECURSIVE ExamplesLoop(_, _, _, _, _)

(* lines 89-92: one page fetched, extend the list and go round again. *)
ExamplesPage(response, original_dataset_id, original_examples) ==
    ExamplesLoop(response.w, original_dataset_id,
                 original_examples \o response.body.value,
                 NextOffset(original_examples \o response.body.value),
                 Len(response.body.value))

(* A loop slip: the loop goes on until a page comes back empty. *)
ExamplesLoopUntilEmpty(w, original_dataset_id, original_examples, offset, last_request_size) ==
    IF last_request_size > 0
    THEN ExamplesPage(Request(w, old_headers, "GET", "/examples",
                              [dataset |-> original_dataset_id, offset |-> offset]),
                      original_dataset_id, original_examples)
    ELSE [w |-> w, original_examples |-> original_examples]

(* lines 80-88: another page is asked for while the last one was full. *)
ExamplesLoop(w, original_dataset_id, original_examples, offset, last_request_size) ==
    IF last_request_size = PageSize
    THEN ExamplesPage(Request(w, old_headers, "GET", "/examples",
                              [dataset |-> original_dataset_id, offset |-> offset]),
                      original_dataset_id, original_examples)
    ELSE [w |-> w, original_examples |-> original_examples]

(* Python truthiness of example["metadata"]: None and {} are false. *)
Truthy(metadata) == ~metadata.isnull /\ DOMAIN metadata.kv # {}

(* A key slip: the split is read from "split", not "dataset_split". *)
SplitOfWrongKey(metadata) ==
    IF Truthy(metadata)
    THEN IF "split" \in DOMAIN metadata.kv THEN metadata.kv["split"] ELSE "base"
    ELSE "base"

(* line 102 *)
SplitOf(metadata) ==
    IF Truthy(metadata)
    THEN IF "dataset_split" \in DOMAIN metadata.kv
         THEN metadata.kv["dataset_split"] ELSE "base"
    ELSE "base"

(* lines 95-105 *)
ExamplePayload(example, new_dataset_id) ==
    [dataset_id |-> new_dataset_id,
     inputs |-> example.inputs,
     outputs |-> example.outputs,
     metadata |-> example.metadata,
     created_at |-> example.created_at,
     split |-> SplitOf(example.metadata)]

(* A pairing slip: range(len(new_examples) - 1) leaves the last pair out. *)
IdMappingDropsLast(original_examples, new_examples) ==
    [k \in {original_examples[i].id : i \in 1..(Len(new_examples) - 1)} |->
        LET at == {i \in 1..(Len(new_examples) - 1) : original_examples[i].id = k}
        IN new_examples[CHOOSE i \in at : \A j \in at : j <= i].id]

(* lines 114-117: pair the i-th source example with the i-th created one;  *)
(* a later pair with the same key replaces an earlier one.                 *)
IdMapping(original_examples, new_examples) ==
    [k \in {original_examples[i].id : i \in 1..Len(new_examples)} |->
        LET at == {i \in 1..Len(new_examples) : original_examples[i].id = k}
        IN new_examples[CHOOSE i \in at : \A j \in at : j <= i].id]

(* lines 112-117: original_examples[i] past the end raises IndexError.     *)
(* An error body is a dict: range(len(new_examples)) then starts at 0,     *)
(* where original_examples[0] raises IndexError on an empty list and       *)
(* new_examples[0] raises KeyError otherwise.                              *)
MapExamples(response, original_examples) ==
    IF response.body.type = "object"
    THEN IF DOMAIN response.body.value = {} THEN Ok(response.w, EmptyDict)
         ELSE IF original_examples = <<>> THEN Raise(response.w, "IndexError")
         ELSE Raise(response.w, "KeyError")
    ELSE IF Len(response.body.value) > Len(original_examples)
    THEN Raise(response.w, "IndexError")
    ELSE Ok(response.w, IdMapping(original_examples, response.body.value))

(* lines 95-111: the bulk POST of everything fetched. *)
CreateExamples(fetched, new_dataset_id) ==
    MapExamples(Request(fetched.w, new_headers, "POST", "/examples/bulk",
                        [i \in 1..Len(fetched.original_examples) |->
                            ExamplePayload(fetched.original_examples[i], new_dataset_id)]),
                fetched.original_examples)

migrate_dataset_examples(w, original_dataset_id, new_dataset_id) ==
    CreateExamples(ExamplesLoop(w, original_dataset_id, <<>>, 0, PageSize), new_dataset_id)

(***************************************************************************)
(* migrate_dataset_experiments, lines 119-206.                             *)
(***************************************************************************)
(* lines 124-135 *)
RECURSIVE ExperimentsLoop(_, _, _, _, _)

(* lines 131-135 *)
ExperimentsPage(response, original_dataset_id, experiments) ==
    ExperimentsLoop(response.w, original_dataset_id,
                    experiments \o response.body.value,
                    Len(experiments \o response.body.value),
                    Len(response.body.value))

ExperimentsLoop(w, original_dataset_id, experiments, offset, last_request_size) ==
    IF last_request_size = PageSize
    THEN ExperimentsPage(Request(w, old_headers, "GET", "/sessions?",
                                 [reference_dataset |-> original_dataset_id,
                                  offset |-> offset]),
                         original_dataset_id, experiments)
    ELSE [w |-> w, experiments |-> experiments]

(* A re-linking slip: the experiment keeps the dataset it referred to. *)
TracerPayloadKeepsReference(experiment, new_dataset_id) ==
    [name |-> experiment.name,
     description |-> experiment.description,
     reference_dataset_id |-> experiment.reference_dataset_id,
     default_dataset_id |-> experiment.default_dataset_id,
     start_time |-> experiment.start_time,
     end_time |-> experiment.end_time,
     extra |-> experiment.extra,
     trace_tier |-> DictGet(experiment, "trace_tier")]

(* lines 140-149 *)
TracerPayload(experiment, new_dataset_id) ==
    [name |-> experiment.name,
     description |-> experiment.description,
     reference_dataset_id |-> new_dataset_id,
     default_dataset_id |-> experiment.default_dataset_id,
     start_time |-> experiment.start_time,
     end_time |-> experiment.end_time,
     extra |-> experiment.extra,
     trace_tier |-> DictGet(experiment, "trace_tier")]

(* lines 155-156: read the "id" of the response, KeyError on a body        *)
(* without one.                                                            *)
RecordExperiment(response, experiment, original_to_new_experiment_ids) ==
    IF "id" \notin DOMAIN response.body.value
    THEN [w |-> response.w, status |-> "KeyError",
          original_to_new_experiment_ids |-> original_to_new_experiment_ids]
    ELSE [w |-> response.w, status |-> "ok",
          original_to_new_experiment_ids |->
              DictSet(original_to_new_experiment_ids, experiment.id,
                      response.body.value.id)]

(* lines 140-156: the body of the loop, for one experiment. *)
CreateExperiment(w, experiment, new_dataset_id, original_to_new_experiment_ids) ==
    RecordExperiment(Request(w, new_headers, "POST", "/sessions",
                             TracerPayload(experiment, new_dataset_id)),
                     experiment, original_to_new_experiment_ids)

(* lines 138-156: one POST /sessions per source experiment, in order,      *)
(* stopping at the first that raises.  The loop over experiments[lo..hi]   *)
(* is unfolded as the loop over its first half followed by the loop over   *)
(* its second half, which runs the same iterations in the same order.      *)
RECURSIVE CreateExperiments(_, _, _, _, _, _)

CreateRest(first, experiments, lo, hi, new_dataset_id) ==
    IF first.status # "ok" THEN first
    ELSE CreateExperiments(first.w, experiments, lo, hi, new_dataset_id,
                           first.original_to_new_experiment_ids)

CreateExperiments(w, experiments, lo, hi, new_dataset_id, original_to_new_experiment_ids) ==
    IF lo > hi
    THEN [w |-> w, status |-> "ok",
          original_to_new_experiment_ids |-> original_to_new_experiment_ids]
    ELSE IF lo = hi
    THEN CreateExperiment(w, experiments[lo], new_dataset_id,
                          original_to_new_experiment_ids)
    ELSE CreateRest(CreateExperiments(w, experiments, lo, (lo + hi) \div 2,
                                      new_dataset_id, original_to_new_experiment_ids),
                    experiments, (lo + hi) \div 2 + 1, hi, new_dataset_id)

(* line 188 *)
NewSessionId(original_to_new_experiment_ids, run) ==
    original_to_new_experiment_ids[run.session_id]

(* A re-pointing slip: an example the mapping lacks keeps its source ID. *)
NewReferenceExampleIdOrSource(original_to_new_example_ids, run) ==
    DictGetOr(original_to_new_example_ids, DictGet(run, "reference_example_id"),
              DictGet(run, "reference_example_id"))

(* A re-pointing slip: the source example ID is passed through unmapped. *)
NewReferenceExampleIdUnmapped(original_to_new_example_ids, run) ==
    DictGet(run, "reference_example_id")

(* line 190 *)
NewReferenceExampleId(original_to_new_example_ids, run) ==
    DictGet(original_to_new_example_ids, DictGet(run, "reference_example_id"))

(* lines 172-193 *)
RunPayload(run, original_to_new_experiment_ids, original_to_new_example_ids) ==
    [name |-> run.name,
     inputs |-> run.inputs,
     run_type |-> run.run_type,
     start_time |-> run.start_time,
     end_time |-> run.end_time,
     extra |-> run.extra,
     error |-> DictGet(run, "error"),
     serialized |-> DictGetOr(run, "serialized", EmptyDict),
     outputs |-> run.outputs,
     parent_run_id |-> DictGet(run, "parent_run_id"),
     events |-> DictGetOr(run, "events", <<>>),
     tags |-> DictGetOr(run, "tags", <<>>),
     trace_id |-> run.trace_id,
     id |-> run.id,
     dotted_order |-> run.dotted_order,
     session_id |-> NewSessionId(original_to_new_experiment_ids, run),
     session_name |-> DictGet(run, "session_name"),
     reference_example_id |-> NewReferenceExampleId(original_to_new_example_ids, run),
     input_attachments |-> DictGetOr(run, "input_attachments", EmptyDict),
     output_attachments |-> DictGetOr(run, "output_attachments", EmptyDict)]

(* lines 163-206: query a page, write it, follow the cursor. *)
RECURSIVE RunsLoop(_, _, _, _)

(* A loop slip: the loop is left after the first page, whatever the cursor. *)
FollowCursorBreaksAlways(posted, next, get_runs_payload, original_to_new_experiment_ids, original_to_new_example_ids) ==
    IF posted.body.type = "exception"
    THEN Raise(posted.w, posted.body.value)
    ELSE Ok(posted.w, Null)

(* lines 198-206: an exception of requests.post leaves the call; the       *)
(* response of the write is not looked at.  Then stop without a next       *)
(* cursor, else query from it.                                             *)
FollowCursor(posted, next, get_runs_payload, original_to_new_experiment_ids, original_to_new_example_ids) ==
    IF posted.body.type = "exception"
    THEN Raise(posted.w, posted.body.value)
    ELSE IF next = Null
    THEN Ok(posted.w, Null)
    ELSE RunsLoop(posted.w, [cursor |-> next] @@ get_runs_payload,
                  original_to_new_experiment_ids, original_to_new_example_ids)

(* lines 169-202: rewrite the page and POST it; line 188 raises KeyError   *)
(* on a run whose session is not in the experiment mapping.                *)
CopyRuns(get_runs_response, get_runs_payload, original_to_new_experiment_ids, original_to_new_example_ids) ==
    IF \E i \in 1..Len(get_runs_response.body.value.runs) :
          get_runs_response.body.value.runs[i].session_id
              \notin DOMAIN original_to_new_experiment_ids
    THEN Raise(get_runs_response.w, "KeyError")
    ELSE FollowCursor(Request(get_runs_response.w, new_headers, "POST", "/runs/batch",
                              [post |-> [i \in 1..Len(get_runs_response.body.value.runs) |->
                                           RunPayload(get_runs_response.body.value.runs[i],
                                                      original_to_new_experiment_ids,
                                                      original_to_new_example_ids)]]),
                      get_runs_response.body.value.cursors.next, get_runs_payload,
                      original_to_new_experiment_ids, original_to_new_example_ids)

RunsLoop(w, get_runs_payload, original_to_new_experiment_ids, original_to_new_example_ids) ==
    CopyRuns(Request(w, old_headers, "POST", "/runs/query", get_runs_payload),
             get_runs_payload, original_to_new_experiment_ids, original_to_new_example_ids)

(* lines 158-206: the runs of all the source experiments. *)
MigrateRuns(created, experiments, original_to_new_example_ids) ==
    IF created.status # "ok" THEN Raise(created.w, created.status)
    ELSE RunsLoop(created.w,
                  [session |-> [i \in 1..Len(experiments) |-> experiments[i].id],
                   skip_pagination |-> FALSE],
                  created.original_to_new_experiment_ids, original_to_new_example_ids)

(* lines 137-156 *)
MigrateExperiments(fetched, new_dataset_id, original_to_new_example_ids) ==
    MigrateRuns(CreateExperiments(fetched.w, fetched.experiments, 1,
                                  Len(fetched.experiments), new_dataset_id, EmptyDict),
                fetched.experiments, original_to_new_example_ids)

migrate_dataset_experiments(w, original_dataset_id, new_dataset_id, original_to_new_example_ids) ==
    MigrateExperiments(ExperimentsLoop(w, original_dataset_id, <<>>, 0, PageSize),
                       new_dataset_id, original_to_new_example_ids)

(***************************************************************************)
(* migrate_dataset, lines 15-72.                                           *)
(***************************************************************************)
(* lines 38-43 and 229-234: what the lookup's response decides.  The       *)
(* outcome is "raise" (several matches), "return" (one match, with its ID) *)
(* or "create" (no match, or an error body).                               *)
Existing(response) ==
    IF HasDetail(response.body)
    THEN [w |-> response.w, outcome |-> "create", id |-> Null]
    ELSE IF Len(response.body.value) > 1
    THEN [w |-> response.w, outcome |-> "raise", id |-> Null]
    ELSE IF Len(response.body.value) = 1
    THEN [w |-> response.w, outcome |-> "return", id |-> response.body.value[1].id]
    ELSE [w |-> response.w, outcome |-> "create", id |-> Null]

(* lines 33-37 and 224-228: look the name up at the destination, when      *)
(* asked to.                                                               *)
ExistenceCheck(w, check_if_already_exists, path, name) ==
    IF ~check_if_already_exists
    THEN [w |-> w, outcome |-> "create", id |-> Null]
    ELSE Existing(Request(w, new_headers, "GET", path, NameQuery(name)))

(* lines 46-55; line 52 sends [] for transformations that are None or []. *)
CreateDatasetPayload(original_dataset) ==
    [name |-> original_dataset.name,
     description |-> original_dataset.description,
     created_at |-> original_dataset.created_at,
     inputs_schema_definition |-> original_dataset.inputs_schema_definition,
     outputs_schema_definition |-> original_dataset.outputs_schema_definition,
     externally_managed |-> original_dataset.externally_managed,
     transformations |-> IF original_dataset.transformations \in {Null, <<>>}
                         THEN <<>> ELSE original_dataset.transformations,
     data_type |-> original_dataset.data_type]

(* lines 66-70: the experiments follow the examples, with their mapping. *)
ExperimentsAfter(examples, original_dataset_id, new_dataset_id) ==
    IF examples.status # "ok" THEN examples
    ELSE migrate_dataset_experiments(examples.w, original_dataset_id, new_dataset_id,
                                     examples.value)

(* lines 64-70: the dispatch on migration_mode. *)
MigrateContents(w, original_dataset_id, new_dataset_id, migration_mode) ==
    IF migration_mode = "EXAMPLES"
    THEN migrate_dataset_examples(w, original_dataset_id, new_dataset_id)
    ELSE IF migration_mode = "EXAMPLES_AND_EXPERIMENTS"
    THEN ExperimentsAfter(migrate_dataset_examples(w, original_dataset_id, new_dataset_id),
                          original_dataset_id, new_dataset_id)
    ELSE Ok(w, Null)

(* line 72 *)
ReturnDatasetId(contents, new_dataset_id) ==
    IF contents.status # "ok" THEN contents ELSE Ok(contents.w, new_dataset_id)

(* lines 62-72 *)
FillDataset(create_response, original_dataset_id, migration_mode) ==
    ReturnDatasetId(MigrateContents(create_response.w, original_dataset_id,
                                    create_response.body.value.id, migration_mode),
                    create_response.body.value.id)

(* lines 40-61: raise, return the existing ID, or create the dataset. *)
CreateDataset(checked, original_dataset, original_dataset_id, migration_mode) ==
    IF checked.outcome = "raise" THEN Raise(checked.w, "ValueError")
    ELSE IF checked.outcome = "return" THEN Ok(checked.w, checked.id)
    ELSE FillDataset(Request(checked.w, new_headers, "POST", "/datasets",
                             CreateDatasetPayload(original_dataset)),
                     original_dataset_id, migration_mode)

(* lines 31-43 *)
CheckDataset(response, original_dataset_id, check_if_already_exists, migration_mode) ==
    CreateDataset(ExistenceCheck(response.w, check_if_already_exists, "/datasets?",
                                 response.body.value.name),
                  response.body.value, original_dataset_id, migration_mode)

migrate_dataset(w, original_dataset_id, check_if_already_exists, migration_mode) ==
    CheckDataset(Request(w, old_headers, "GET", "/datasets/{id}", original_dataset_id),
                 original_dataset_id, check_if_already_exists, migration_mode)

(***************************************************************************)
(* migrate_annotation_queue, lines 208-267.                                *)
(***************************************************************************)
(* lines 237-245 *)
MigrateDefaultDataset(w, original_annotation_queue, migration_mode) ==
    IF migration_mode = "QUEUE_AND_DATASET"
       /\ original_annotation_queue.default_dataset # Null
    THEN migrate_dataset(w, original_annotation_queue.default_dataset, TRUE, "EXAMPLES")
    ELSE Ok(w, Null)

(* lines 248-260 *)
CreateQueuePayload(original_annotation_queue, default_dataset) ==
    [name |-> original_annotation_queue.name,
     description |-> original_annotation_queue.description,
     created_at |-> original_annotation_queue.created_at,
     updated_at |-> original_annotation_queue.updated_at,
     default_dataset |-> default_dataset,
     num_reviewers_per_item |-> original_annotation_queue.num_reviewers_per_item,
     enable_reservations |-> original_annotation_queue.enable_reservations,
     reservation_minutes |-> original_annotation_queue.reservation_minutes,
     rubric_items |-> original_annotation_queue.rubric_items,
     rubric_instructions |-> original_annotation_queue.rubric_instructions,
     session_ids |-> <<>>]

(* line 267 *)
ReturnQueueId(created) == Ok(created.w, created.body.value.id)

(* lines 247-267 *)
PostQueue(dataset, original_annotation_queue) ==
    IF dataset.status # "ok" THEN dataset
    ELSE ReturnQueueId(Request(dataset.w, new_headers, "POST", "/annotation-queues",
                               CreateQueuePayload(original_annotation_queue,
                                                  dataset.value)))

(* lines 231-245: raise, return the existing ID, or go on to create. *)
CreateQueue(checked, original_annotation_queue, migration_mode) ==
    IF checked.outcome = "raise" THEN Raise(checked.w, "ValueError")
    ELSE IF checked.outcome = "return" THEN Ok(checked.w, checked.id)
    ELSE PostQueue(MigrateDefaultDataset(checked.w, original_annotation_queue,
                                         migration_mode),
                   original_annotation_queue)

(* lines 222-234: the lookup goes to /annotation_queues, with an           *)
(* underscore (line 226).                                                  *)
CheckQueue(response, check_if_already_exists, migration_mode) ==
    CreateQueue(ExistenceCheck(response.w, check_if_already_exists,
                               "/annotation_queues?", response.body.value.name),
                response.body.value, migration_mode)

migrate_annotation_queue(w, old_annotation_queue_id, check_if_already_exists, migration_mode) ==
    CheckQueue(Request(w, old_headers, "GET", "/annotation-queues/{id}",
                       old_annotation_queue_id),
               check_if_already_exists, migration_mode)

(***************************************************************************)
(* migrate_project_rules, lines 270-332.                                   *)
(***************************************************************************)
(* lines 288-294 *)
MigrateRuleDataset(w, old_rule) ==
    IF old_rule.add_to_dataset_id # Null
    THEN migrate_dataset(w, old_rule.add_to_dataset_id, TRUE, "EXAMPLES")
    ELSE Ok(w, Null)

(* lines 297-303 *)
MigrateRuleQueue(w, old_rule) ==
    IF old_rule.add_to_annotation_queue_id # Null
    THEN migrate_annotation_queue(w, old_rule.add_to_annotation_queue_id, TRUE,
                                  "QUEUE_AND_DATASET")
    ELSE Ok(w, Null)

(* lines 306-327 *)
CreateRulePayload(old_rule, new_project_id, add_to_dataset_id, add_to_annotation_queue_id) ==
    [display_name |-> old_rule.display_name,
     session_id |-> new_project_id,
     is_enabled |-> old_rule.is_enabled,
     dataset_id |-> Null,
     sampling_rate |-> old_rule.sampling_rate,
     filter |-> old_rule.filter,
     trace_filter |-> old_rule.trace_filter,
     tree_filter |-> old_rule.tree_filter,
     add_to_annotation_queue_id |-> add_to_annotation_queue_id,
     add_to_dataset_id |-> add_to_dataset_id,
     add_to_dataset_prefer_correction |-> old_rule.add_to_dataset_prefer_correction,
     use_corrections_dataset |-> old_rule.use_corrections_dataset,
     num_few_shot_examples |-> old_rule.num_few_shot_examples,
     extend_only |-> old_rule.extend_only,
     transient |-> old_rule.transient,
     backfill_from |-> old_rule.backfill_from,
     evaluators |-> old_rule.evaluators,
     code_evaluators |-> old_rule.code_evaluators,
     alerts |-> old_rule.alerts,
     webhooks |-> old_rule.webhooks]

(* lines 282-332: the loop over the fetched rules, in order. *)
RECURSIVE RulesLoop(_, _, _)

(* lines 328-332: the rule is created; on to the next one. *)
NextRule(created, old_rules, new_project_id) ==
    RulesLoop(created.w, Tail(old_rules), new_project_id)

(* lines 305-332 *)
PostRule(queue, add_to_dataset_id, old_rules, new_project_id) ==
    IF queue.status # "ok" THEN queue
    ELSE NextRule(Request(queue.w, new_headers, "POST", "/runs/rules",
                          CreateRulePayload(Head(old_rules), new_project_id,
                                            add_to_dataset_id, queue.value)),
                  old_rules, new_project_id)

(* lines 296-303 *)
RuleQueue(dataset, old_rules, new_project_id) ==
    IF dataset.status # "ok" THEN dataset
    ELSE PostRule(MigrateRuleQueue(dataset.w, Head(old_rules)), dataset.value,
                  old_rules, new_project_id)

(* A filter slip: a rule that has a dataset_id is migrated like the others. *)
RulesLoopSkipsNothing(w, old_rules, new_project_id) ==
    IF old_rules = <<>> THEN Ok(w, Null)
    ELSE RuleQueue(MigrateRuleDataset(w, Head(old_rules)), old_rules, new_project_id)

(* lines 282-286: a rule that has a dataset_id is passed over. *)
RulesLoop(w, old_rules, new_project_id) ==
    IF old_rules = <<>> THEN Ok(w, Null)
    ELSE IF Head(old_rules).dataset_id # Null
    THEN RulesLoop(w, Tail(old_rules), new_project_id)
    ELSE RuleQueue(MigrateRuleDataset(w, Head(old_rules)), old_rules, new_project_id)

(* lines 275-281 *)
EachRule(response, new_project_id) == RulesLoop(response.w, response.body.value, new_project_id)

migrate_project_rules(w, old_project_id, new_project_id) ==
    EachRule(Request(w, old_headers, "GET", "/runs/rules?", old_project_id), new_project_id)

(***************************************************************************)
(* migrate_prompt, lines 334-341.                                          *)
(***************************************************************************)
(* line 341 and the end of the method: the result of push_prompt is        *)
(* dropped and the method returns None.                                    *)
ReturnNone(pushed) == Ok(pushed.w, Null)

(* line 341: the manifest of the pulled commit is pushed with the          *)
(* destination client under the same identifier.                           *)
PushPrompt(prompt_object, original_prompt_id) ==
    ReturnNone(Request(prompt_object.w, new_client, "push_prompt", "prompt",
                       [prompt_identifier |-> original_prompt_id,
                        object |-> prompt_object.body.value.manifest]))

migrate_prompt(w, original_prompt_id) ==
    PushPrompt(Request(w, old_client, "pull_prompt_commit", "prompt",
                       [prompt_identifier |-> original_prompt_id, include_model |-> TRUE]),
               original_prompt_id)

(***************************************************************************)
(* The two instances before the first call.                                *)
(***************************************************************************)
EmptyInstance(tag) ==
    [tag |-> tag, nextId |-> 1, faults |-> NoFaults, datasets |-> <<>>,
     examples |-> <<>>, sessions |-> <<>>, runs |-> <<>>, queues |-> <<>>,
     rules |-> <<>>, prompts |-> <<>>]

OldDataset(k) == <<"old", "dataset", k>>

OldExample(i) == <<"old", "example", i>>

OldSession(j) == <<"old", "session", j>>

OldQueue == <<"old", "queue", 1>>

OldPrompt == "my-prompt"

OldProject == <<"old", "session", 0>>

NewProject == <<"new", "session", 0>>

MetaNull == [isnull |-> TRUE, kv |-> EmptyDict]

Meta(kv) == [isnull |-> FALSE, kv |-> kv]

(* The metadata of the i-th source example: null, a split, another key, {}. *)
MetaOf(i) ==
    CASE i % 4 = 1 -> MetaNull
      [] i % 4 = 2 -> Meta([k \in {"dataset_split"} |-> "holdout"])
      [] i % 4 = 3 -> Meta([k \in {"source"} |-> "import"])
      [] OTHER -> Meta(EmptyDict)

SourceExample(i, dataset_id) ==
    [id |-> OldExample(i), dataset_id |-> dataset_id, inputs |-> <<"in", i>>,
     outputs |-> <<"out", i>>, metadata |-> MetaOf(i), created_at |-> <<"t", i>>]

SourceExperiment(j) ==
    [id |-> OldSession(j), name |-> <<"experiment", j>>, description |-> <<"d", j>>,
     reference_dataset_id |-> OldDataset(1),
     default_dataset_id |-> IF j % 2 = 1 THEN OldDataset(1) ELSE Null,
     start_time |-> <<"t", j>>, end_time |-> <<"t", j + 1>>,
     extra |-> <<"extra", j>>]
     @@ (IF j % 2 = 1 THEN [trace_tier |-> "longlived"] ELSE EmptyDict)

(* Experiment j holds one root run without a reference example and one     *)
(* child run per example of dataset 1.  The root run of an odd experiment  *)
(* carries its optional keys with null values; the root run of an even one *)
(* lacks them.                                                             *)
SourceRun(j, i, n1) ==
    [id |-> <<"old", "run", j * (n1 + 1) + i>>, name |-> <<"run", i>>,
     inputs |-> <<"in", i>>, outputs |-> <<"out", j>>,
     run_type |-> IF i = 0 THEN "chain" ELSE "llm",
     start_time |-> <<"t", i>>, end_time |-> <<"t", i + 1>>,
     extra |-> <<"extra", i>>,
     trace_id |-> <<"old", "run", j * (n1 + 1)>>,
     dotted_order |-> <<j, i>>,
     session_id |-> OldSession(j)]
     @@ (IF i = 0 /\ j % 2 = 0 THEN EmptyDict
         ELSE [parent_run_id |-> IF i = 0 THEN Null ELSE <<"old", "run", j * (n1 + 1)>>,
               reference_example_id |-> IF i = 0 THEN Null ELSE OldExample(i),
               error |-> Null,
               serialized |-> [k \in {"lc"} |-> 1],
               events |-> << <<"event", i>> >>,
               tags |-> <<"tag">>,
               session_name |-> <<"experiment", j>>,
               input_attachments |-> EmptyDict,
               output_attachments |-> EmptyDict])

SourceRule(k, shape) ==
    [id |-> <<"old", "rule", k>>, display_name |-> <<"rule", k>>,
     session_id |-> OldProject, dataset_id |-> shape.dataset_id,
     is_enabled |-> TRUE, sampling_rate |-> k, filter |-> <<"filter", k>>,
     trace_filter |-> Null, tree_filter |-> Null,
     add_to_dataset_id |-> shape.add_to_dataset_id,
     add_to_annotation_queue_id |-> shape.add_to_annotation_queue_id,
     add_to_dataset_prefer_correction |-> FALSE, use_corrections_dataset |-> FALSE,
     num_few_shot_examples |-> Null, extend_only |-> FALSE, transient |-> FALSE,
     backfill_from |-> Null, evaluators |-> Null, code_evaluators |-> Null,
     alerts |-> Null, webhooks |-> Null]

SourceDataset(k, name, transformations) ==
    [id |-> OldDataset(k), name |-> name, description |-> <<"d", k>>,
     created_at |-> <<"t", k>>, inputs_schema_definition |-> Null,
     outputs_schema_definition |-> Null, externally_managed |-> FALSE,
     transformations |-> transformations, data_type |-> "kv"]

(* The source: dataset 1 with n1 examples and nexp experiments (each with   *)
(* its runs, or all of them still without runs), dataset 2 with one        *)
(* example, one annotation queue, one project with its rules, one prompt   *)
(* with two commits.                                                       *)
SourceInstance(name1, name2, n1, nexp, with_runs, queue_default, shapes) ==
    [tag |-> "old", nextId |-> 1, faults |-> NoFaults,
     datasets |-> <<SourceDataset(1, name1, Null), SourceDataset(2, name2, <<"t1">>)>>,
     examples |-> [i \in 1..(n1 + 1) |->
                     SourceExample(i, IF i <= n1 THEN OldDataset(1) ELSE OldDataset(2))],
     sessions |-> [j \in 1..nexp |-> SourceExperiment(j)],
     runs |-> [r \in 1..(IF with_runs THEN nexp * (n1 + 1) ELSE 0) |->
                 SourceRun((r - 1) \div (n1 + 1) + 1, (r - 1) % (n1 + 1), n1)],
     queues |-> <<[id |-> OldQueue, name |-> <<"a">>, description |-> <<"d", 1>>,
                   created_at |-> <<"t", 1>>, updated_at |-> <<"t", 2>>,
                   default_dataset |-> queue_default, num_reviewers_per_item |-> 1,
                   enable_reservations |-> TRUE, reservation_minutes |-> 1,
                   rubric_items |-> <<>>, rubric_instructions |-> <<"rubric">>,
                   session_ids |-> <<OldProject>>]>>,
     rules |-> [k \in 1..Len(shapes) |-> SourceRule(k, shapes[k])],
     prompts |-> [c \in 1..2 |-> [prompt_identifier |-> OldPrompt,
                                  manifest |-> <<"manifest", c>>]]]

(* The destination: what earlier use left there, created through its API. *)
RECURSIVE WithDatasets(_, _)
WithDatasets(inst, names) ==
    IF names = <<>> THEN inst
    ELSE WithDatasets(ServeCreateDataset(inst, [name |-> Head(names),
                                                description |-> <<"pre">>,
                                                created_at |-> <<"t", 0>>,
                                                inputs_schema_definition |-> Null,
                                                outputs_schema_definition |-> Null,
                                                externally_managed |-> FALSE,
                                                transformations |-> <<>>,
                                                data_type |-> "kv"]).inst,
                      Tail(names))

RECURSIVE WithQueues(_, _)
WithQueues(inst, n) ==
    IF n = 0 THEN inst
    ELSE WithQueues(ServeCreateQueue(inst, [name |-> <<"a">>, description |-> <<"pre">>,
                                            created_at |-> <<"t", 0>>,
                                            updated_at |-> <<"t", 0>>,
                                            default_dataset |-> Null,
                                            num_reviewers_per_item |-> 1,
                                            enable_reservations |-> TRUE,
                                            reservation_minutes |-> 1,
                                            rubric_items |-> <<>>,
                                            rubric_instructions |-> <<"rubric">>,
                                            session_ids |-> <<>>]).inst,
                    n - 1)

DestinationInstance(dataset_names, nqueues) ==
    WithQueues(WithDatasets(EmptyInstance("new"), dataset_names), nqueues)

(***************************************************************************)
(* State: the two instances, the requests of the latest call, and the      *)
(* calls made so far: what was asked, how it ended, what it returned, and  *)
(* two observations of the destination before the call, the number of its  *)
(* entities that carried the source entity's name (matches) and the number *)
(* of examples its target dataset held (held).                             *)
(***************************************************************************)
InitOf(name1s, name2s, n1s, nexps, with_runs, queue_defaults, rule_lists, pre_datasets, pre_queues) ==
    /\ \E name1 \in name1s, name2 \in name2s, n1 \in n1s, nexp \in nexps,
          queue_default \in queue_defaults, shapes \in rule_lists :
          old = SourceInstance(name1, name2, n1, nexp, with_runs, queue_default, shapes)
    /\ \E names \in pre_datasets, nqueues \in pre_queues :
          new = DestinationInstance(names, nqueues)
    /\ log = <<>>
    /\ hist = <<>>

World == [old |-> old, new |-> new, log |-> <<>>]

Matches(coll, name) == Len(SelectSeq(coll, LAMBDA x : x.name = name))

Held(inst, dataset_id) ==
    Len(SelectSeq(inst.examples, LAMBDA e : e.dataset_id = dataset_id))

Finish(op, args, matches, held, result) ==
    /\ old' = result.w.old
    /\ new' = result.w.new
    /\ log' = result.w.log
    /\ hist' = Append(hist, [op |-> op, args |-> args, matches |-> matches,
                             held |-> held, status |-> result.status,
                             value |-> result.value])

DatasetIds(inst) == {inst.datasets[i].id : i \in 1..Len(inst.datasets)}

DatasetModes == {"EXAMPLES", "EXAMPLES_AND_EXPERIMENTS", "DATASET_ONLY"}

QueueModes == {"QUEUE_AND_DATASET", "QUEUE_ONLY"}

(* The example-ID mappings a caller holds: none, or one returned earlier. *)
KnownMappings ==
    {EmptyDict} \cup {hist[i].value : i \in {j \in 1..Len(hist) :
                                               /\ hist[j].op = "migrate_dataset_examples"
                                               /\ hist[j].status = "ok"}}

(***************************************************************************)
(* One action per public method.  The arguments are drawn from the sets    *)
(* given, so that each specification explores the calls it is about.       *)
(***************************************************************************)
MigrateDataset(ids, checks, modes) ==
    /\ Len(hist) < MaxCalls
    /\ \E id \in ids, check \in checks, mode \in modes :
          Finish("migrate_dataset",
                 [original_dataset_id |-> id, check_if_already_exists |-> check,
                  migration_mode |-> mode],
                 Matches(new.datasets, ById(old.datasets, id).name), 0,
                 migrate_dataset(World, id, check, mode))

MigrateDatasetExamples(ids) ==
    /\ Len(hist) < MaxCalls
    /\ \E id \in ids, new_id \in DatasetIds(new) :
          Finish("migrate_dataset_examples",
                 [original_dataset_id |-> id, new_dataset_id |-> new_id],
                 0, Held(new, new_id),
                 migrate_dataset_examples(World, id, new_id))

MigrateDatasetExperiments(ids) ==
    /\ Len(hist) < MaxCalls
    /\ \E id \in ids, new_id \in DatasetIds(new), mapping \in KnownMappings :
          Finish("migrate_dataset_experiments",
                 [original_dataset_id |-> id, new_dataset_id |-> new_id,
                  original_to_new_example_ids |-> mapping],
                 0, Held(new, new_id),
                 migrate_dataset_experiments(World, id, new_id, mapping))

MigrateAnnotationQueue(checks, modes) ==
    /\ Len(hist) < MaxCalls
    /\ \E check \in checks, mode \in modes :
          Finish("migrate_annotation_queue",
                 [old_annotation_queue_id |-> OldQueue,
                  check_if_already_exists |-> check, migration_mode |-> mode],
                 Matches(new.queues, ById(old.queues, OldQueue).name), 0,
                 migrate_annotation_queue(World, OldQueue, check, mode))

MigrateProjectRules ==
    /\ Len(hist) < MaxCalls
    /\ Finish("migrate_project_rules",
              [old_project_id |-> OldProject, new_project_id |-> NewProject],
              0, 0,
              migrate_project_rules(World, OldProject, NewProject))

PromptIds(inst) == {inst.prompts[i].prompt_identifier : i \in 1..Len(inst.prompts)}

MigratePrompt ==
    /\ Len(hist) < MaxCalls
    /\ \E id \in PromptIds(old) :
          Finish("migrate_prompt", [original_prompt_id |-> id], 0, 0,
                 migrate_prompt(World, id))

Shape(dataset_id, add_to_dataset_id, add_to_annotation_queue_id) ==
    [dataset_id |-> dataset_id, add_to_dataset_id |-> add_to_dataset_id,
     add_to_annotation_queue_id |-> add_to_annotation_queue_id]

(* k datasets of one name, for every name and every k up to MaxPre. *)
PreDatasets == {[i \in 1..k |-> name] : name \in Names, k \in 0..MaxPre}

(***************************************************************************)
(* Spec: every method, with every argument, from a source whose first      *)
(* dataset has any of the names and feeds a rule and the queue.            *)
(***************************************************************************)
Init ==
    InitOf(Names, {<<"a">>}, {MaxExamples}, {1}, TRUE, {OldDataset(1)},
           {<<Shape(Null, OldDataset(1), OldQueue)>>}, {<<>>}, {0})

Next ==
    \/ MigrateDataset(DatasetIds(old), BOOLEAN, DatasetModes)
    \/ MigrateDatasetExamples(DatasetIds(old))
    \/ MigrateDatasetExperiments(DatasetIds(old))
    \/ MigrateAnnotationQueue(BOOLEAN, QueueModes)
    \/ MigrateProjectRules
    \/ MigratePrompt

Spec == Init /\ [][Next]_vars

(***************************************************************************)
(* SpecPaging: the two offset loops against sources of every size up to    *)
(* MaxN; the destination holds one dataset to write into.                  *)
(***************************************************************************)
InitPaging ==
    \/ InitOf({<<"a">>}, {<<"a", "a">>}, 0..MaxN, {0}, FALSE, {Null}, {<<>>},
              {<< <<"target">> >>}, {0})
    \/ InitOf({<<"a">>}, {<<"a", "a">>}, {0}, 0..MaxN, FALSE, {Null}, {<<>>},
              {<< <<"target">> >>}, {0})

NextPaging ==
    \/ MigrateDatasetExamples({OldDataset(1)})
    \/ MigrateDatasetExperiments({OldDataset(1)})

SpecPaging == InitPaging /\ [][NextPaging]_vars

(***************************************************************************)
(* SpecExperiments: experiments and their runs, migrated directly or as    *)
(* part of a dataset, for every number of examples and experiments.        *)
(***************************************************************************)
InitExperiments ==
    InitOf({<<"a">>}, {<<"a", "a">>}, 0..MaxExamples, 0..MaxExperiments, TRUE, {Null},
           {<<>>},
           {<< <<"target">> >>}, {0})

NextExperiments ==
    \/ MigrateDataset({OldDataset(1)}, {TRUE}, {"EXAMPLES_AND_EXPERIMENTS"})
    \/ MigrateDatasetExamples({OldDataset(1)})
    \/ MigrateDatasetExperiments({OldDataset(1)})

SpecExperiments == InitExperiments /\ [][NextExperiments]_vars

(***************************************************************************)
(* SpecNames: migrate_dataset for every dataset name, against destinations *)
(* that already hold up to MaxPre datasets of one name.                    *)
(***************************************************************************)
InitNames ==
    InitOf(Names, {<<"a">>}, {1}, {1}, TRUE, {Null}, {<<>>}, PreDatasets, {0})

NextNames ==
    MigrateDataset({OldDataset(1)}, BOOLEAN, DatasetModes)

SpecNames == InitNames /\ [][NextNames]_vars

(***************************************************************************)
(* SpecCascade: rules and queues that reach datasets, for every dataset    *)
(* name, queue default and rule list, against destinations that already    *)
(* hold a dataset or queues named "a".                                     *)
(***************************************************************************)
CascadeShapes ==
    {Shape(Null, OldDataset(1), Null), Shape(Null, OldDataset(2), Null),
     Shape(Null, Null, OldQueue), Shape(OldDataset(1), OldDataset(1), OldQueue)}

RuleLists == UNION {[1..k -> CascadeShapes] : k \in 0..MaxRules}

InitCascade ==
    InitOf(Names, {<<"a">>}, {1}, {0}, TRUE, {Null, OldDataset(1), OldDataset(2)},
           RuleLists,
           {<<>>, << <<"a">> >>}, 0..MaxPre)

NextCascade ==
    \/ MigrateProjectRules
    \/ MigrateAnnotationQueue({TRUE}, QueueModes)

SpecCascade == InitCascade /\ [][NextCascade]_vars

(***************************************************************************)
(* SpecFaults: datasets with their examples, experiments and runs,         *)
(* migrated to a destination that answers one of its bulk writes short,    *)
(* rejects it or drops the connection on it; the source dataset has a      *)
(* plain name or a name with a reserved character.                         *)
(***************************************************************************)
FaultNames == {<<"a">>, <<"a", "&">>}

RunNumbers == 1..(MaxExperiments * (MaxExamples + 1) + MaxExamples)

Faults ==
    {NoFaults}
    \cup {[NoFaults EXCEPT !.bulk_examples = kind] : kind \in {"short", "reject"}}
    \cup {[NoFaults EXCEPT !.batch_runs = kind, !.failing_run = <<"old", "run", r>>] :
             kind \in {"reject", "disconnect"}, r \in RunNumbers}

InitFaults ==
    /\ \E name1 \in FaultNames, n1 \in 1..MaxExamples :
          old = SourceInstance(name1, <<"a", "a">>, n1, MaxExperiments, TRUE, Null, <<>>)
    /\ \E faults \in Faults :
          new = [DestinationInstance(<< <<"target">> >>, 0) EXCEPT !.faults = faults]
    /\ log = <<>>
    /\ hist = <<>>

NextFaults ==
    \/ MigrateDataset({OldDataset(1)}, {TRUE}, DatasetModes)
    \/ MigrateDatasetExamples({OldDataset(1)})
    \/ MigrateDatasetExperiments({OldDataset(1)})

SpecFaults == InitFaults /\ [][NextFaults]_vars

(***************************************************************************)
(* SpecAmbiguity: rules and queues that reach datasets, against            *)
(* destinations where a dataset name or the queue name is already shared   *)
(* by several entities.                                                    *)
(***************************************************************************)
AmbiguousDatasets == {[i \in 1..k |-> name] : name \in FaultNames, k \in {0, MaxPre}}

InitAmbiguity ==
    InitOf(FaultNames, {<<"a">>}, {1}, {0}, TRUE, {Null, OldDataset(1), OldDataset(2)},
           RuleLists,
           AmbiguousDatasets, 0..MaxPre)

NextAmbiguity ==
    \/ MigrateProjectRules
    \/ MigrateAnnotationQueue({TRUE}, QueueModes)

SpecAmbiguity == InitAmbiguity /\ [][NextAmbiguity]_vars

(***************************************************************************)
(* Properties.                                                             *)
(***************************************************************************)
LastCall == hist[Len(hist)]

Called(op) == Len(hist) > 0 /\ LastCall.op = op

Requests(requests, method, path) ==
    SelectSeq(requests, LAMBDA e : e.method = method /\ e.path = path)

ExamplesOf(inst, dataset_id) ==
    SelectSeq(inst.examples, LAMBDA e : e.dataset_id = dataset_id)

SameContent(example, source_example) ==
    /\ example.inputs = source_example.inputs
    /\ example.outputs = source_example.outputs

(* C3: against a destination whose bulk create answers one record per      *)
(* submitted record, in order, a call of migrate_dataset_examples for a    *)
(* source dataset of N examples returns a mapping whose domain is the N    *)
(* source example IDs and whose range is N distinct destination IDs; it    *)
(* adds exactly N examples to the new dataset (so a dataset that was empty *)
(* then holds exactly N), the i-th mapped from and equal in inputs and     *)
(* outputs to the i-th source example.                                     *)
C3_ExampleMappingBijective ==
    Called("migrate_dataset_examples") =>
        LET source == ExamplesOf(old, LastCall.args.original_dataset_id)
            after == ExamplesOf(new, LastCall.args.new_dataset_id)
            mapping == LastCall.value
            N == Len(source)
        IN /\ LastCall.status = "ok"
           /\ DOMAIN mapping = {source[i].id : i \in 1..N}
           /\ Cardinality({mapping[k] : k \in DOMAIN mapping}) = N
           /\ Len(after) = LastCall.held + N
           /\ \A i \in 1..N :
                 /\ after[LastCall.held + i].id = mapping[source[i].id]
                 /\ mapping[source[i].id][1] = "new"
                 /\ SameContent(after[LastCall.held + i], source[i])

(* C3 witness: a call for a source dataset of exactly two full pages has   *)
(* returned a mapping into an initially empty destination dataset.         *)
C3_Witness ==
    /\ Called("migrate_dataset_examples")
    /\ LastCall.held = 0
    /\ Len(ExamplesOf(old, LastCall.args.original_dataset_id)) = 2 * PageSize
    /\ Cardinality(DOMAIN LastCall.value) = 2 * PageSize
    /\ Len(ExamplesOf(new, LastCall.args.new_dataset_id)) = 2 * PageSize

(* C4: with the source serving pages of at most PageSize examples from the *)
(* requested offset, the sequence migrate_dataset_examples accumulates and *)
(* submits holds every source example of the dataset exactly once, in      *)
(* source order, for every total N: none skipped, none fetched twice.      *)
C4_PaginationComplete ==
    Called("migrate_dataset_examples") =>
        LET source == ExamplesOf(old, LastCall.args.original_dataset_id)
            submitted == Last(log).arg
        IN /\ Last(log).path = "/examples/bulk"
           /\ Len(submitted) = Len(source)
           /\ \A i \in 1..Len(source) :
                 /\ SameContent(submitted[i], source[i])
                 /\ submitted[i].created_at = source[i].created_at

(* C4 witness: 250 examples fetched in three pages (100, 100, 50). *)
C4_Witness ==
    /\ Called("migrate_dataset_examples")
    /\ Len(ExamplesOf(old, LastCall.args.original_dataset_id)) = 2 * PageSize + 50
    /\ Len(Requests(log, "GET", "/examples")) = 3
    /\ Len(Last(log).arg) = 2 * PageSize + 50

(* The experiments the latest call migrated, and the destination ID that   *)
(* call created for each: the j-th POST /sessions answers the j-th one.    *)
MigratedExperiments ==
    LET fetches == Requests(log, "GET", "/sessions?")
    IN IF fetches = <<>> THEN <<>>
       ELSE SelectSeq(old.sessions,
                      LAMBDA s : s.reference_dataset_id = fetches[1].arg.reference_dataset)

CreatedExperimentId(session_id) ==
    LET j == CHOOSE j \in 1..Len(MigratedExperiments) :
                MigratedExperiments[j].id = session_id
    IN Requests(log, "POST", "/sessions")[j].created[1]

(* The example mapping the latest call re-pointed runs with: the argument  *)
(* of migrate_dataset_experiments, or, inside migrate_dataset, the pairing *)
(* of the dataset's source examples with the examples just created, as far *)
(* as the destination answered them.                                       *)
ExampleMappingInUse ==
    IF LastCall.op = "migrate_dataset_experiments"
    THEN LastCall.args.original_to_new_example_ids
    ELSE LET source == ExamplesOf(old, LastCall.args.original_dataset_id)
             created == Requests(log, "POST", "/examples/bulk")[1].created
         IN [k \in {source[i].id : i \in 1..Min(Len(source), Len(created))} |->
               created[CHOOSE i \in 1..Len(source) : source[i].id = k]]

(* The reference example of the source run a posted run was copied from:  *)
(* null when the source run has none, by a null value or a missing key.    *)
SourceReference(run) == DictGet(ById(old.runs, run.id), "reference_example_id")

PostedRuns ==
    LET batches == Requests(log, "POST", "/runs/batch")
    IN UNION {Range(batches[b].arg.post) : b \in 1..Len(batches)}

(* C5: every run a call writes to the destination carries as session_id    *)
(* the destination ID created in that call for the run's source experiment *)
(* and as reference_example_id the mapped ID of the source run's reference *)
(* example; a source run without a reference example is written with null  *)
(* there, and the call ends normally.                                      *)
C5_RunsRepointed ==
    (Len(hist) > 0 /\ PostedRuns # {}) =>
        /\ LastCall.status = "ok"
        /\ \A run \in PostedRuns :
              /\ run \in Range(new.runs)
              /\ run.session_id = CreatedExperimentId(ById(old.runs, run.id).session_id)
              /\ run.session_id[1] = "new"
              /\ SourceReference(run) = Null => run.reference_example_id = Null
              /\ SourceReference(run) \in DOMAIN ExampleMappingInUse
                    => run.reference_example_id
                          = ExampleMappingInUse[SourceReference(run)]

(* C5 witness: a dataset migrated with its experiments wrote a run that    *)
(* points at a created example and a run without a reference example.      *)
C5_Witness ==
    /\ Called("migrate_dataset")
    /\ LastCall.status = "ok"
    /\ \E run \in PostedRuns :
          /\ run.reference_example_id # Null
          /\ run.reference_example_id[1] = "new"
          /\ SourceReference(run) \in DOMAIN ExampleMappingInUse
    /\ \E run \in PostedRuns :
          /\ SourceReference(run) = Null
          /\ run.reference_example_id = Null

(* What the destination held before the latest call: the entities that no  *)
(* request of the call created.                                            *)
CreatedInCall == UNION {Range(log[i].created) : i \in 1..Len(log)}

BeforeCall(coll) == SelectSeq(coll, LAMBDA x : x.id \notin CreatedInCall)

(* What the destination held before the first call. *)
BeforeFirstCall(coll) == SelectSeq(coll, LAMBDA x : x.description = <<"pre">>)

Named(coll, name) == SelectSeq(coll, LAMBDA x : x.name = name)

(* The positions in the log of the requests to one route, in order. *)
PositionsOf(method, path) ==
    SelectSeq([i \in 1..Len(log) |-> i],
              LAMBDA i : log[i].method = method /\ log[i].path = path)

(* A request that writes: any POST but the runs query, and a prompt push. *)
Writes(entry) ==
    \/ entry.method = "POST" /\ entry.path # "/runs/query"
    \/ entry.method = "push_prompt"

NothingWritten == \A i \in 1..Len(log) : ~Writes(log[i])

SourceDatasetName(id) == ById(old.datasets, id).name

(* C1: for a destination holding no dataset of the source dataset's name,  *)
(* two successive calls of migrate_dataset for that dataset with           *)
(* check_if_already_exists = TRUE, in any modes, both end normally with    *)
(* the same destination ID, and the destination then holds exactly one     *)
(* dataset of that name.                                                   *)
C1_Idempotent ==
    \A i \in 1..(Len(hist) - 1) :
        (/\ hist[i].op = "migrate_dataset"
         /\ hist[i + 1].op = "migrate_dataset"
         /\ hist[i].args.original_dataset_id = hist[i + 1].args.original_dataset_id
         /\ hist[i].args.check_if_already_exists
         /\ hist[i + 1].args.check_if_already_exists
         /\ hist[i].matches = 0)
        => /\ hist[i].status = "ok"
           /\ hist[i + 1].status = "ok"
           /\ hist[i].value = hist[i + 1].value
           /\ i + 1 = Len(hist)
                 => Len(Named(new.datasets,
                              SourceDatasetName(hist[i].args.original_dataset_id))) = 1

(* C2: when the destination holds two or more datasets of the source       *)
(* dataset's name, migrate_dataset with check_if_already_exists = TRUE     *)
(* ends with ValueError and has written nothing to the destination.        *)
C2_AmbiguityRaises ==
    (/\ Called("migrate_dataset")
     /\ LastCall.args.check_if_already_exists
     /\ LastCall.matches >= 2)
    => /\ LastCall.status = "ValueError"
       /\ NothingWritten

(* The source rules a call creates rules for, in order, and the source     *)
(* rule behind the i-th rule of the destination.                           *)
EligibleRules == SelectSeq(old.rules, LAMBDA r : r.dataset_id = Null)

SourceRuleOf(i) == EligibleRules[((i - 1) % Len(EligibleRules)) + 1]

(* No dataset of this name was at the destination once the first upto      *)
(* requests of the latest call were made.                                  *)
NotYetAt(name, upto) ==
    /\ Named(BeforeCall(new.datasets), name) = <<>>
    /\ \A q \in 1..upto :
          ~(log[q].method = "POST" /\ log[q].path = "/datasets" /\ log[q].arg.name = name)

(* C6: in migrate_project_rules, for every source rule with null           *)
(* dataset_id and an add_to_dataset_id whose dataset is not yet at the     *)
(* destination when the rule is reached, a dataset of that name is created *)
(* before the rule is, and the created rule's add_to_dataset_id is the ID  *)
(* of that created dataset, not the source ID.                             *)
C6_RuleCascade ==
    Called("migrate_project_rules") =>
        \A j \in 1..Len(PositionsOf("POST", "/runs/rules")) :
            LET rule == EligibleRules[j]
                at == PositionsOf("POST", "/runs/rules")[j]
                since == IF j = 1 THEN 0 ELSE PositionsOf("POST", "/runs/rules")[j - 1]
            IN (/\ rule.add_to_dataset_id # Null
                /\ NotYetAt(SourceDatasetName(rule.add_to_dataset_id), since))
               => /\ log[at].arg.add_to_dataset_id # rule.add_to_dataset_id
                  /\ \E q \in (since + 1)..(at - 1) :
                        /\ log[q].method = "POST"
                        /\ log[q].path = "/datasets"
                        /\ log[q].arg.name = SourceDatasetName(rule.add_to_dataset_id)
                        /\ log[at].arg.add_to_dataset_id = log[q].created[1]

(* C7: migrate_annotation_queue with check_if_already_exists = TRUE        *)
(* returns the ID of the existing queue and writes nothing when exactly    *)
(* one destination queue has the source queue's name, and ends with        *)
(* ValueError, nothing written, when several have it; so two successive    *)
(* calls from a destination without such a queue return the same ID and    *)
(* leave one queue of that name.                                           *)
C7_QueueExistenceCheck ==
    /\ (Called("migrate_annotation_queue") /\ LastCall.args.check_if_already_exists)
          => /\ LastCall.matches = 1
                   => /\ LastCall.status = "ok"
                      /\ LastCall.value
                            = Named(BeforeCall(new.queues),
                                    ById(old.queues, OldQueue).name)[1].id
                      /\ NothingWritten
             /\ LastCall.matches > 1
                   => /\ LastCall.status = "ValueError"
                      /\ NothingWritten
    /\ \A i \in 1..(Len(hist) - 1) :
          (/\ hist[i].op = "migrate_annotation_queue"
           /\ hist[i + 1].op = "migrate_annotation_queue"
           /\ hist[i].args.check_if_already_exists
           /\ hist[i + 1].args.check_if_already_exists
           /\ hist[i].matches = 0)
          => /\ hist[i].value = hist[i + 1].value
             /\ i + 1 = Len(hist)
                   => Len(Named(new.queues, ById(old.queues, OldQueue).name)) = 1

(* The requests a call may issue with the source credentials: reads. *)
ReadsOnly(entry) ==
    \/ entry.method \in {"GET", "pull_prompt_commit"}
    \/ entry.path = "/runs/query"

(* C8: no call changes the source instance; every request issued with the *)
(* source credentials is a GET, the runs query or a prompt pull, and every *)
(* writing request is issued with the destination credentials.             *)
C8_SourceReadOnly ==
    [][/\ old' = old
       /\ \A i \in 1..Len(log') :
             /\ log'[i].headers = old_headers => ReadsOnly(log'[i])
             /\ Writes(log'[i]) => log'[i].headers = new_headers]_vars

(* C8 witness: a call of migrate_project_rules has read rules, a dataset,  *)
(* its examples and a queue from the source and has created a dataset,     *)
(* examples, a queue and a rule at the destination.                        *)
C8_Witness ==
    /\ Called("migrate_project_rules")
    /\ LastCall.status = "ok"
    /\ \A path \in {"/runs/rules?", "/datasets/{id}", "/examples",
                      "/annotation-queues/{id}"} :
          \E i \in 1..Len(log) :
              log[i].headers = old_headers /\ log[i].method = "GET" /\ log[i].path = path
    /\ \A path \in {"/datasets", "/examples/bulk", "/annotation-queues", "/runs/rules"} :
          \E i \in 1..Len(log) :
              /\ log[i].headers = new_headers
              /\ log[i].method = "POST"
              /\ log[i].path = path
              /\ log[i].created # <<>>

(* The references to the copy of a source dataset that the destination's   *)
(* rules and the queues created there carry.                               *)
RuleReferences(dataset_id) ==
    {i \in 1..Len(new.rules) : SourceRuleOf(i).add_to_dataset_id = dataset_id}

QueueReferences(dataset_id) ==
    {i \in 1..Len(new.queues) :
        /\ new.queues[i].description # <<"pre">>
        /\ new.queues[i].default_dataset # Null
        /\ ById(old.queues, OldQueue).default_dataset = dataset_id}

(* C9: from a destination that held no dataset named as a source dataset,  *)
(* once the calls of migrate_project_rules and migrate_annotation_queue    *)
(* have reached a source dataset several times, the destination holds      *)
(* exactly one dataset of its name, and every rule and queue reference     *)
(* derived from it carries the ID of that dataset.                         *)
C9_DatasetsOncePerName ==
    (\A d \in Range(old.datasets) : Named(BeforeFirstCall(new.datasets), d.name) = <<>>)
    => \A d \in Range(old.datasets) :
          Cardinality(RuleReferences(d.id)) + Cardinality(QueueReferences(d.id)) >= 2
          => /\ Len(Named(new.datasets, d.name)) = 1
             /\ \A i \in RuleReferences(d.id) :
                   new.rules[i].add_to_dataset_id = Named(new.datasets, d.name)[1].id
             /\ \A i \in QueueReferences(d.id) :
                   new.queues[i].default_dataset = Named(new.datasets, d.name)[1].id

DatasetPaths == {"/datasets/{id}", "/datasets?", "/datasets", "/examples", "/examples/bulk"}

(* C10: when migrate_annotation_queue creates a queue in mode              *)
(* QUEUE_AND_DATASET for a source queue with a default dataset, the        *)
(* dataset is migrated before the queue is created, with no experiment or  *)
(* run written, and the queue's default_dataset is the ID of the           *)
(* destination dataset of that name; in mode QUEUE_ONLY the created        *)
(* queue's default_dataset is null and no dataset request is issued.       *)
C10_QueueDefaultDataset ==
    (/\ Called("migrate_annotation_queue")
     /\ PositionsOf("POST", "/annotation-queues") # <<>>)
    => LET at == PositionsOf("POST", "/annotation-queues")[1]
           default == ById(old.queues, OldQueue).default_dataset
       IN /\ (LastCall.args.migration_mode = "QUEUE_AND_DATASET" /\ default # Null)
                => /\ \E g \in 1..(at - 1) :
                         /\ log[g].headers = old_headers
                         /\ log[g].path = "/datasets/{id}"
                         /\ log[g].arg = default
                   /\ PositionsOf("POST", "/sessions") = <<>>
                   /\ PositionsOf("POST", "/runs/batch") = <<>>
                   /\ \E d \in Range(new.datasets) :
                         /\ d.name = SourceDatasetName(default)
                         /\ d.id = log[at].arg.default_dataset
          /\ LastCall.args.migration_mode = "QUEUE_ONLY"
                => /\ log[at].arg.default_dataset = Null
                   /\ \A i \in 1..Len(log) : log[i].path \notin DatasetPaths

(* The source datasets and the source queue a call of                      *)
(* migrate_project_rules reaches: through add_to_dataset_id, through       *)
(* add_to_annotation_queue_id, and through the default dataset of a queue  *)
(* so reached.                                                             *)
QueueReached ==
    \E j \in 1..Len(EligibleRules) : EligibleRules[j].add_to_annotation_queue_id # Null

DatasetsReached ==
    {EligibleRules[j].add_to_dataset_id : j \in 1..Len(EligibleRules)}
    \cup (IF QueueReached THEN {ById(old.queues, OldQueue).default_dataset} ELSE {})

SameCalls(i, j, op) ==
    \A k \in i..j : hist[k].op = op /\ hist[k].args = hist[i].args

(* C11: k calls of migrate_project_rules leave k destination rules per     *)
(* eligible source rule, and k calls of migrate_dataset_examples for one   *)
(* pair of datasets add k times the N source examples to the destination   *)
(* dataset, while each dataset and queue the rules reach through the       *)
(* existence check is at the destination exactly once.                     *)
C11_NoGuardBelowDatasets ==
    /\ (Len(hist) > 0 /\ SameCalls(1, Len(hist), "migrate_project_rules"))
          => /\ \A j \in 1..Len(EligibleRules) :
                   Len(SelectSeq(new.rules,
                                 LAMBDA r : r.display_name = EligibleRules[j].display_name))
                      = Len(hist)
             /\ \A id \in DatasetsReached \ {Null} :
                   Len(Named(new.datasets, SourceDatasetName(id))) = 1
             /\ QueueReached
                   => Len(Named(new.queues, ById(old.queues, OldQueue).name)) = 1
    /\ \A i \in 1..Len(hist) :
          SameCalls(i, Len(hist), "migrate_dataset_examples")
          => Len(ExamplesOf(new, hist[i].args.new_dataset_id))
                = hist[i].held
                  + (Len(hist) - i + 1)
                    * Len(ExamplesOf(old, hist[i].args.original_dataset_id))

(* C12: every example migrate_dataset_examples submits carries as split    *)
(* the dataset_split of the source example's metadata when that metadata   *)
(* exists and has the key, and "base" otherwise: metadata null, empty, or  *)
(* without the key.                                                        *)
C12_SplitDefault ==
    Called("migrate_dataset_examples") =>
        LET source == ExamplesOf(old, LastCall.args.original_dataset_id)
            submitted == Last(log).arg
        IN /\ Last(log).path = "/examples/bulk"
           /\ Len(submitted) = Len(source)
           /\ \A i \in 1..Len(source) :
                 submitted[i].split
                    = IF /\ ~source[i].metadata.isnull
                         /\ "dataset_split" \in DOMAIN source[i].metadata.kv
                      THEN source[i].metadata.kv["dataset_split"]
                      ELSE "base"

(* C12 witness: a call has submitted an example with the split "holdout"   *)
(* of its metadata and "base" for null metadata, for metadata with another *)
(* key only and for empty metadata.                                        *)
C12_Witness ==
    /\ Called("migrate_dataset_examples")
    /\ Len(Last(log).arg) >= 4
    /\ LET source == ExamplesOf(old, LastCall.args.original_dataset_id)
           submitted == Last(log).arg
       IN /\ source[1].metadata.isnull /\ submitted[1].split = "base"
          /\ "dataset_split" \in DOMAIN source[2].metadata.kv
          /\ submitted[2].split = "holdout"
          /\ DOMAIN source[3].metadata.kv = {"source"} /\ submitted[3].split = "base"
          /\ ~source[4].metadata.isnull /\ DOMAIN source[4].metadata.kv = {}
          /\ submitted[4].split = "base"

(* C13: whenever the destination holds exactly one dataset of the source   *)
(* dataset's name, migrate_dataset with check_if_already_exists = TRUE     *)
(* returns that dataset's ID in every mode, having issued nothing but the  *)
(* read of the source dataset and the lookup; in particular, after a call  *)
(* that created the dataset and was aborted before its examples were       *)
(* written, every later call returns the existing ID and leaves the        *)
(* dataset without examples.                                               *)
C13_ShortCircuit ==
    /\ (/\ Called("migrate_dataset")
        /\ LastCall.args.check_if_already_exists
        /\ LastCall.matches = 1)
       => /\ LastCall.status = "ok"
          /\ LastCall.value
                = Named(BeforeCall(new.datasets),
                        SourceDatasetName(LastCall.args.original_dataset_id))[1].id
          /\ \A i \in 1..Len(log) :
                log[i].method = "GET" /\ log[i].path \in {"/datasets/{id}", "/datasets?"}
    /\ \A i \in 2..Len(hist) :
          (/\ hist[1].op = "migrate_dataset"
           /\ hist[1].matches = 0
           /\ hist[1].status \in {"KeyError", "IndexError"}
           /\ new.faults.bulk_examples = "reject"
           /\ hist[i].op = "migrate_dataset"
           /\ hist[i].args.original_dataset_id = hist[1].args.original_dataset_id
           /\ hist[i].args.check_if_already_exists)
          => /\ hist[i].status = "ok"
             /\ Len(Named(new.datasets,
                           SourceDatasetName(hist[1].args.original_dataset_id))) = 1
             /\ ExamplesOf(new, hist[i].value) = <<>>

(* The positions in the log of the run batches that the destination failed *)
(* to write: the batches carrying the run it fails on.                     *)
FailedBatches ==
    SelectSeq(PositionsOf("POST", "/runs/batch"),
              LAMBDA p : /\ new.faults.batch_runs # "ok"
                         /\ \E i \in 1..Len(log[p].arg.post) :
                               log[p].arg.post[i].id = new.faults.failing_run)

(* C14: when the write of a page of runs fails, it is not issued again,    *)
(* the runs of the pages before it and the experiments created in the call *)
(* stay at the destination, and the call is aborted there: it ends with an *)
(* exception and the failed write is its last request.                     *)
C14_FailedPageAborts ==
    (Len(hist) > 0 /\ FailedBatches # <<>>)
    => /\ Len(FailedBatches) = 1
       /\ \A p \in 1..(FailedBatches[1] - 1) :
             /\ (log[p].method = "POST" /\ log[p].path = "/runs/batch")
                   => Range(log[p].arg.post) \subseteq Range(new.runs)
             /\ (log[p].method = "POST" /\ log[p].path = "/sessions")
                   => \E s \in Range(new.sessions) : s.id = log[p].created[1]
       /\ LastCall.status # "ok"
       /\ FailedBatches[1] = Len(log)

(* The answer of the source to the k-th runs query of the latest call; the *)
(* source is only read, so it answers now as it did then.                  *)
RunsPage(k) ==
    ServeQueryRuns(old, log[PositionsOf("POST", "/runs/query")[k]].arg).body.value

RunIds(runs) == [i \in 1..Len(runs) |-> runs[i].id]

(* C15: in a call that migrates experiments, every experiment is created  *)
(* before the first runs query; each query is followed at once by exactly  *)
(* one bulk write, which carries the runs that query returned; the first   *)
(* query has no cursor and each later one the next-cursor of the answer    *)
(* before it; the last query is the first whose answer has no next-cursor; *)
(* and every run of the migrated experiments is written exactly once.      *)
C15_RunPagingProtocol ==
    (Len(hist) > 0 /\ PositionsOf("POST", "/runs/query") # <<>>) =>
        LET creates == PositionsOf("POST", "/sessions")
            queries == PositionsOf("POST", "/runs/query")
            batches == PositionsOf("POST", "/runs/batch")
            written == [k \in 1..Len(batches) |-> RunIds(log[batches[k]].arg.post)]
        IN /\ Len(creates) = Len(MigratedExperiments)
           /\ \A i \in 1..Len(creates) : creates[i] < queries[1]
           /\ Len(batches) = Len(queries)
           /\ \A k \in 1..Len(queries) :
                 /\ batches[k] = queries[k] + 1
                 /\ k < Len(queries) => queries[k + 1] = batches[k] + 1
                 /\ written[k] = RunIds(RunsPage(k).runs)
                 /\ IF k = 1
                    THEN "cursor" \notin DOMAIN log[queries[k]].arg
                    ELSE /\ "cursor" \in DOMAIN log[queries[k]].arg
                         /\ log[queries[k]].arg.cursor = RunsPage(k - 1).cursors.next
                 /\ (RunsPage(k).cursors.next = Null) <=> (k = Len(queries))
           /\ batches[Len(batches)] = Len(log)
           /\ \A r \in 1..Len(old.runs) :
                 (\E j \in 1..Len(MigratedExperiments) :
                     MigratedExperiments[j].id = old.runs[r].session_id)
                 => Cardinality({<<k, i>> \in (1..Len(batches)) \X (1..RunsPerPage) :
                                   i <= Len(written[k]) /\ written[k][i] = old.runs[r].id}) = 1

(* C15 witness: two experiments migrated on their own, their runs copied   *)
(* in three pages or more.                                                 *)
C15_Witness ==
    /\ Called("migrate_dataset_experiments")
    /\ LastCall.status = "ok"
    /\ Len(PositionsOf("POST", "/sessions")) = 2
    /\ Len(PositionsOf("POST", "/runs/query")) >= 3
    /\ RunsPage(2).cursors.next # Null
    /\ Len(PositionsOf("POST", "/runs/batch")) = Len(PositionsOf("POST", "/runs/query"))

(* A name several destination datasets shared when the latest call began,  *)
(* and the same of the source queue's name among the destination queues.   *)
DatasetAmbiguous(id) ==
    id # Null /\ Len(Named(BeforeCall(new.datasets), SourceDatasetName(id))) > 1

QueueAmbiguous ==
    Len(Named(BeforeCall(new.queues), ById(old.queues, OldQueue).name)) > 1

(* A rule whose migration meets an ambiguous name: that of its dataset, of *)
(* its queue, or of the default dataset of its queue when the queue has to *)
(* be created.                                                             *)
RuleAmbiguous(rule) ==
    \/ DatasetAmbiguous(rule.add_to_dataset_id)
    \/ /\ rule.add_to_annotation_queue_id # Null
       /\ \/ QueueAmbiguous
          \/ /\ Named(BeforeCall(new.queues), ById(old.queues, OldQueue).name) = <<>>
             /\ DatasetAmbiguous(ById(old.queues, OldQueue).default_dataset)

FirstAmbiguous ==
    CHOOSE i \in 1..Len(EligibleRules) :
        /\ RuleAmbiguous(EligibleRules[i])
        /\ \A j \in 1..(i - 1) : ~RuleAmbiguous(EligibleRules[j])

Remaining ==
    {x.id : x \in Range(new.datasets) \cup Range(new.queues) \cup Range(new.rules)
                  \cup Range(new.examples)}

(* C16: when migrate_project_rules meets at its i-th eligible rule a       *)
(* dataset, a queue or a queue's default dataset whose name several        *)
(* destination entities share, the call ends with ValueError right after   *)
(* the lookup; the rules before the i-th were created, in order, and they  *)
(* and everything else the call created remain; no rule from the i-th on   *)
(* is created.  And migrate_annotation_queue in mode QUEUE_AND_DATASET     *)
(* creates no queue when the name of its default dataset is ambiguous, and *)
(* ends with ValueError when it has to create the queue.                   *)
C16_AmbiguityAborts ==
    /\ (Called("migrate_project_rules")
        /\ \E i \in 1..Len(EligibleRules) : RuleAmbiguous(EligibleRules[i]))
       => /\ LastCall.status = "ValueError"
          /\ Len(PositionsOf("POST", "/runs/rules")) = FirstAmbiguous - 1
          /\ \A j \in 1..Min(FirstAmbiguous - 1, Len(PositionsOf("POST", "/runs/rules"))) :
                log[PositionsOf("POST", "/runs/rules")[j]].arg.display_name
                   = EligibleRules[j].display_name
          /\ CreatedInCall \subseteq Remaining
          /\ log[Len(log)].method = "GET"
          /\ log[Len(log)].headers = new_headers
    /\ (/\ Called("migrate_annotation_queue")
        /\ LastCall.args.migration_mode = "QUEUE_AND_DATASET"
        /\ DatasetAmbiguous(ById(old.queues, OldQueue).default_dataset))
       => /\ PositionsOf("POST", "/annotation-queues") = <<>>
          /\ LastCall.matches = 0 => LastCall.status = "ValueError"
          /\ CreatedInCall \subseteq Remaining

(* The dataset lookups made for a rule itself: those that follow the fetch *)
(* of the rules or the creation of the rule before.                        *)
RuleDatasetGets ==
    SelectSeq(PositionsOf("GET", "/datasets/{id}"),
              LAMBDA p : p > 1 /\ log[p - 1].path \in {"/runs/rules?", "/runs/rules"})

WithDataset(rules) == SelectSeq(rules, LAMBDA r : r.add_to_dataset_id # Null)

WithQueue(rules) == SelectSeq(rules, LAMBDA r : r.add_to_annotation_queue_id # Null)

(* C17: a call of migrate_project_rules that ends normally has created one *)
(* rule for each source rule whose dataset_id is null, in order, and none  *)
(* for the others; every created rule carries the new_project_id argument  *)
(* as session_id and a null dataset_id; and the datasets and the queue it  *)
(* migrated are those of the rules with a null dataset_id only.            *)
C17_RuleFilteringAndForcing ==
    (Called("migrate_project_rules") /\ LastCall.status = "ok") =>
        /\ Len(PositionsOf("POST", "/runs/rules")) = Len(EligibleRules)
        /\ \A j \in 1..Len(EligibleRules) :
              LET post == log[PositionsOf("POST", "/runs/rules")[j]]
              IN /\ post.arg.display_name = EligibleRules[j].display_name
                 /\ post.arg.filter = EligibleRules[j].filter
                 /\ post.arg.session_id = LastCall.args.new_project_id
                 /\ post.arg.dataset_id = Null
                 /\ ById(new.rules, post.created[1]).session_id
                       = LastCall.args.new_project_id
                 /\ ById(new.rules, post.created[1]).dataset_id = Null
        /\ Len(RuleDatasetGets) = Len(WithDataset(EligibleRules))
        /\ \A k \in 1..Len(WithDataset(EligibleRules)) :
              log[RuleDatasetGets[k]].arg = WithDataset(EligibleRules)[k].add_to_dataset_id
        /\ Len(PositionsOf("GET", "/annotation-queues/{id}"))
              = Len(WithQueue(EligibleRules))

(* C17 witness: a project with a rule that has a dataset_id, a dataset and *)
(* a queue, followed by a rule without dataset_id; one rule was created,   *)
(* and neither a queue nor the first rule's dataset was asked for.         *)
C17_Witness ==
    /\ Called("migrate_project_rules")
    /\ LastCall.status = "ok"
    /\ Len(old.rules) = 2
    /\ old.rules[1].dataset_id # Null
    /\ old.rules[1].add_to_annotation_queue_id # Null
    /\ old.rules[2].dataset_id = Null
    /\ old.rules[2].add_to_dataset_id = OldDataset(2)
    /\ Len(PositionsOf("POST", "/runs/rules")) = 1
    /\ PositionsOf("GET", "/annotation-queues/{id}") = <<>>
    /\ \A p \in Range(PositionsOf("GET", "/datasets/{id}")) : log[p].arg # OldDataset(1)
    /\ old.rules[2].session_id # LastCall.args.new_project_id

(* The offsets of the requests the latest call made to one listing route,  *)
(* and the page the source serves to the last of them.                     *)
Offsets(path) ==
    [k \in 1..Len(PositionsOf("GET", path)) |-> log[PositionsOf("GET", path)[k]].arg.offset]

LastPage(path) ==
    Serve(old, "GET", path, log[Last(PositionsOf("GET", path))].arg).body.value

(* The offsets 0, PageSize, 2 * PageSize, ... of floor(n / PageSize) + 1   *)
(* requests.                                                               *)
PagingOffsets(n) == [k \in 1..(n \div PageSize + 1) |-> (k - 1) * PageSize]

(* C18: against a source of N examples migrate_dataset_examples makes      *)
(* exactly floor(N / 100) + 1 GET requests for examples, with the offsets  *)
(* 0, 100, 200, ..., and the last of them is answered with an empty page   *)
(* when N is a multiple of 100; migrate_dataset_experiments does the same  *)
(* with the experiments of the dataset.                                    *)
C18_PagingRequestCount ==
    /\ Called("migrate_dataset_examples")
          => /\ Offsets("/examples")
                   = PagingOffsets(Len(ExamplesOf(old, LastCall.args.original_dataset_id)))
             /\ Len(ExamplesOf(old, LastCall.args.original_dataset_id)) % PageSize = 0
                   => LastPage("/examples") = <<>>
    /\ Called("migrate_dataset_experiments")
          => /\ Offsets("/sessions?") = PagingOffsets(Len(MigratedExperiments))
             /\ Len(MigratedExperiments) % PageSize = 0
                   => LastPage("/sessions?") = <<>>

(* C18 witness: 200 examples, asked for at the offsets 0, 100 and 200, the *)
(* third request answered with an empty page.                              *)
C18_Witness ==
    /\ Called("migrate_dataset_examples")
    /\ Len(ExamplesOf(old, LastCall.args.original_dataset_id)) = 2 * PageSize
    /\ Offsets("/examples") = <<0, PageSize, 2 * PageSize>>
    /\ LastPage("/examples") = <<>>
    /\ LastCall.status = "ok"

(* The destination dataset the latest call attached experiments to: the    *)
(* new_dataset_id argument, which inside migrate_dataset is the ID of the  *)
(* dataset that call created and returned.                                 *)
TargetDataset ==
    IF LastCall.op = "migrate_dataset_experiments"
    THEN LastCall.args.new_dataset_id
    ELSE LastCall.value

(* C19: a call that migrates experiments and ends normally has created one *)
(* destination experiment per source experiment of the dataset, in order;  *)
(* each has the new_dataset_id argument, a destination dataset ID, as      *)
(* reference_dataset_id and the source experiment's default_dataset_id     *)
(* unchanged; and the IDs created for different source experiments differ. *)
C19_ExperimentRelinking ==
    (/\ Len(hist) > 0
     /\ LastCall.op \in {"migrate_dataset_experiments", "migrate_dataset"}
     /\ LastCall.status = "ok")
    => LET creates == PositionsOf("POST", "/sessions")
       IN /\ Len(creates) = Len(MigratedExperiments)
          /\ \A j \in 1..Len(MigratedExperiments) :
                LET made == ById(new.sessions, log[creates[j]].created[1])
                IN /\ made.name = MigratedExperiments[j].name
                   /\ made.reference_dataset_id = TargetDataset
                   /\ made.reference_dataset_id[1] = "new"
                   /\ made.reference_dataset_id \in DatasetIds(new)
                   /\ made.reference_dataset_id # MigratedExperiments[j].reference_dataset_id
                   /\ made.default_dataset_id = MigratedExperiments[j].default_dataset_id
                   /\ made.id[1] = "new"
          /\ \A j, k \in 1..Len(creates) :
                j # k => log[creates[j]].created[1] # log[creates[k]].created[1]

(* C19 witness: two experiments migrated on their own, one with a default  *)
(* dataset and one without, both attached to the dataset named in the      *)
(* call.                                                                   *)
C19_Witness ==
    /\ Called("migrate_dataset_experiments")
    /\ LastCall.status = "ok"
    /\ Len(MigratedExperiments) = 2
    /\ Len(PositionsOf("POST", "/sessions")) = 2
    /\ log[PositionsOf("POST", "/sessions")[1]].arg.default_dataset_id = OldDataset(1)
    /\ log[PositionsOf("POST", "/sessions")[2]].arg.default_dataset_id = Null
    /\ \A j \in 1..2 :
          log[PositionsOf("POST", "/sessions")[j]].arg.reference_dataset_id
             = LastCall.args.new_dataset_id

(* C20: every run a call writes carries as reference_example_id either     *)
(* null or a value of the example mapping in use, never a source ID; a run *)
(* whose source reference is missing from the mapping is written with      *)
(* null, and the call ends normally unless a write of runs failed.         *)
C20_NoSourceExampleIdLeaks ==
    (Len(hist) > 0 /\ PostedRuns # {}) =>
        /\ \A run \in PostedRuns :
              /\ \/ run.reference_example_id = Null
                 \/ \E k \in DOMAIN ExampleMappingInUse :
                       ExampleMappingInUse[k] = run.reference_example_id
              /\ run.reference_example_id # Null
                    => /\ run.reference_example_id[1] = "new"
                       /\ run.reference_example_id # SourceReference(run)
              /\ SourceReference(run) \notin DOMAIN ExampleMappingInUse
                    => run.reference_example_id = Null
        /\ FailedBatches = <<>> => LastCall.status = "ok"

(* C20 witness: the bulk create answered one example fewer than submitted, *)
(* so the mapping lacks the last source example; the run that referred to  *)
(* it was written with null, another run with a mapped ID, and the call    *)
(* ended normally.                                                         *)
C20_Witness ==
    /\ Called("migrate_dataset")
    /\ LastCall.status = "ok"
    /\ new.faults.bulk_examples = "short"
    /\ \E run \in PostedRuns :
          /\ SourceReference(run) # Null
          /\ SourceReference(run) \notin DOMAIN ExampleMappingInUse
          /\ run.reference_example_id = Null
    /\ \E run \in PostedRuns :
          /\ SourceReference(run) \in DOMAIN ExampleMappingInUse
          /\ run.reference_example_id = ExampleMappingInUse[SourceReference(run)]

====
